---- MODULE Spec2Model ----
(***************************************************************************)
(* scrape_images_from_pages (src/scrape_nested_images.py) as a state       *)
(* machine: validation, output-root setup, the page loop, the per-page     *)
(* image loop with its stop conditions, and the post-loop cap report.      *)
(*                                                                         *)
(* Strings (URLs, paths, extensions) are sequences of one-character        *)
(* strings, so that startswith, rstrip, os.path.join and the f-string      *)
(* formatting are computed and not assumed.                                *)
(*                                                                         *)
(* Environment: the web server's answer to each request, the pre-existing  *)
(* content of the output tree and the success of each os.makedirs call are *)
(* nondeterministic.  open()/write() on a page directory that exists is    *)
(* taken to succeed; the code has no handler for its failure.              *)
(***************************************************************************)
EXTENDS Integers, Sequences, FiniteSets, TLC

\* ------------------------------------------------------------------ bounds
\* largest num_parent_pages of a valid configuration
MaxPages == 2
\* largest max_images_per_page of a valid configuration
MaxImages == 3

\* ----------------------------------------------------------------- strings
SLASH == "/"
DOT == "."

HTTP == <<"h", "t", "t", "p", ":", "/", "/">>
HTTPS == <<"h", "t", "t", "p", "s", ":", "/", "/">>
JPG == <<".", "j", "p", "g">>

\* str.startswith(prefix)
StartsWith(s, pre) ==
    /\ Len(s) >= Len(pre)
    /\ SubSeq(s, 1, Len(pre)) = pre

\* str.startswith((a, b)): a tuple of prefixes
StartsWithAny(s, pres) == \E pre \in pres : StartsWith(s, pre)

\* str.rstrip('/')
RECURSIVE RStripSlash(_)
RStripSlash(s) ==
    IF Len(s) > 0 /\ s[Len(s)] = SLASH
    THEN RStripSlash(SubSeq(s, 1, Len(s) - 1))
    ELSE s

DigitChar(d) ==
    CASE d = 0 -> "0" [] d = 1 -> "1" [] d = 2 -> "2" [] d = 3 -> "3"
      [] d = 4 -> "4" [] d = 5 -> "5" [] d = 6 -> "6" [] d = 7 -> "7"
      [] d = 8 -> "8" [] d = 9 -> "9"

\* f"{n}" of a non-negative int
RECURSIVE IntToStr(_)
IntToStr(n) ==
    IF n < 10 THEN <<DigitChar(n)>>
    ELSE IntToStr(n \div 10) \o <<DigitChar(n % 10)>>

\* os.path.join(a, b) on a POSIX system
PathJoin(a, b) ==
    IF Len(b) > 0 /\ b[1] = SLASH THEN b
    ELSE IF Len(a) = 0 \/ a[Len(a)] = SLASH THEN a \o b
    ELSE a \o <<SLASH>> \o b

\* ------------------------------------------------------------ configuration
\* A Python argument that is meant to be an int: int says whether
\* isinstance(x, int) holds, val is its numeric value.
PyInt(v) == [int |-> TRUE, val |-> v]
NotAnInt(v) == [int |-> FALSE, val |-> v]

BaseUrls ==
    { HTTP \o <<"x", "/", "a">>,
      HTTPS \o <<"x", "/", "a", "/">>,
      <<"f", "t", "p", ":", "/", "/", "x">> }

Extensions == { JPG, <<"j", "p", "g">>, <<>> }

PageCounts == { PyInt(v) : v \in 0..MaxPages } \cup { NotAnInt(1) }

ImageCaps == { PyInt(v) : v \in 0..MaxImages } \cup { NotAnInt(1) }

\* the arguments of one call; the page-name prefix and the output directory
\* are fixed strings
Configs ==
    [ base_url_for_pages : BaseUrls,
      image_extension : Extensions,
      num_parent_pages : PageCounts,
      max_images_per_page : ImageCaps ]

parent_page_name_prefix == <<"p">>
output_directory == <<"o", "u", "t">>

\* first value of range(1, num_parent_pages + 1)
FirstPage == 1
\* first value of range(1, max_images_per_page + 1)
FirstImage == 1

VARIABLES
    cfg,        \* the arguments of the call
    pc,         \* position in scrape_images_from_pages
    page_num,   \* loop variable of the page loop (0: not yet bound)
    image_idx,  \* loop variable of the image loop (0: iterator not advanced)
    images_downloaded_for_this_page,
    dirs,       \* paths that exist as directories
    files,      \* path -> content, for the paths that exist as files
    dirs0,      \* dirs when the first call started
    files0,     \* files when the first call started
    fsops,      \* filesystem calls made so far, in order
    requests,   \* requests.get calls made so far, in order, with their outcome
    out,        \* lines printed so far, in order
    run,        \* 1 in the first call of the function, 2 in a second call
    first       \* what the first call left behind, once a second call began

vars == << cfg, pc, page_num, image_idx, images_downloaded_for_this_page,
           dirs, files, dirs0, files0, fsops, requests, out, run, first >>

\* ---------------------------------------------------------- derived targets
\* f"{parent_page_name_prefix}_{page_num}"
ParentPageSegment(p) == parent_page_name_prefix \o <<"_">> \o IntToStr(p)

\* CurrentPageImageBaseUrl that leaves the page segment out
BaseUrlWithoutSegment(base, p) == RStripSlash(base)

\* f"{base_url_for_pages.rstrip('/')}/{parent_page_segment}"
CurrentPageImageBaseUrl(base, p) ==
    RStripSlash(base) \o <<SLASH>> \o ParentPageSegment(p)

PageSpecificOutputDir(p) == PathJoin(output_directory, ParentPageSegment(p))

\* f"{image_idx}{image_extension}"
ImageFilename(i, ext) == IntToStr(i) \o ext

\* f"{current_page_image_base_url}/{image_filename}"
FullImageUrl(base, p, i, ext) ==
    CurrentPageImageBaseUrl(base, p) \o <<SLASH>> \o ImageFilename(i, ext)

OutputImagePath(p, i, ext) ==
    PathJoin(PageSpecificOutputDir(p), ImageFilename(i, ext))

\* ---------------------------------------------------------------- validation
IsPositiveInt(x) == x.int /\ x.val > 0

\* ValidationError without the test of line 35
ValidationErrorNoExtensionTest(c) ==
    IF ~StartsWithAny(c.base_url_for_pages, {HTTP, HTTPS}) THEN "bad_base_url"
    ELSE IF ~IsPositiveInt(c.num_parent_pages) THEN "bad_num_parent_pages"
    ELSE IF ~IsPositiveInt(c.max_images_per_page) THEN "bad_max_images_per_page"
    ELSE "none"

\* the first violated constraint, in the order the code tests them
ValidationError(c) ==
    IF ~StartsWithAny(c.base_url_for_pages, {HTTP, HTTPS}) THEN "bad_base_url"
    ELSE IF ~StartsWith(c.image_extension, <<DOT>>) THEN "bad_image_extension"
    ELSE IF ~IsPositiveInt(c.num_parent_pages) THEN "bad_num_parent_pages"
    ELSE IF ~IsPositiveInt(c.max_images_per_page) THEN "bad_max_images_per_page"
    ELSE "none"

\* ------------------------------------------------------------------- records
Range(seq) == { seq[j] : j \in 1..Len(seq) }

Line(msg, p, i, n) == [msg |-> msg, page |-> p, idx |-> i, n |-> n]
FsOp(op, path, p, i) == [op |-> op, path |-> path, page |-> p, idx |-> i]
Request(url, p, i, outcome) ==
    [url |-> url, page |-> p, idx |-> i, outcome |-> outcome]

\* ------------------------------------------------------------ initial states
\* The output tree before the call: the root is absent (and then nothing is
\* under it), or present with some page directories, each holding some of the
\* image files 1..MaxImages (named with JPG by an earlier run).
PreExisting ==
    UNION { [ ds -> SUBSET (1..MaxImages) ] : ds \in SUBSET (1..MaxPages) }

DirsOf(pre) ==
    {output_directory} \cup { PageSpecificOutputDir(p) : p \in DOMAIN pre }

FilePairsOf(pre) ==
    { pi \in (DOMAIN pre) \X (1..MaxImages) : pi[2] \in pre[pi[1]] }

FilesOf(pre) ==
    LET paths == { OutputImagePath(pi[1], pi[2], JPG) : pi \in FilePairsOf(pre) }
    IN  [ path \in paths |-> "old" ]

NoFiles == [ path \in {} |-> "old" ]

\* the record of a first call: the files it left, and how many requests and
\* lines there were when it was done
FirstCall(fs, nreq, nout) == [files |-> fs, requests |-> nreq, out |-> nout]

Init ==
    /\ cfg \in Configs
    /\ \/ /\ dirs = {}
          /\ files = NoFiles
       \/ \E pre \in PreExisting :
            /\ dirs = DirsOf(pre)
            /\ files = FilesOf(pre)
    /\ dirs0 = dirs
    /\ files0 = files
    /\ pc = "validate"
    /\ page_num = 0
    /\ image_idx = 0
    /\ images_downloaded_for_this_page = 0
    /\ fsops = << >>
    /\ requests = << >>
    /\ out = << >>
    /\ run = 1
    /\ first = FirstCall(NoFiles, 0, 0)

\* ------------------------------------------------------------------- actions
\* lines 31-43
Validate ==
    /\ pc = "validate"
    /\ LET err == ValidationError(cfg) IN
         IF err # "none"
         THEN /\ out' = Append(out, Line(err, 0, 0, 0))
              /\ pc' = "aborted"
         ELSE /\ out' = out
              /\ pc' = "mkroot"
    /\ UNCHANGED << run, first, cfg, page_num, image_idx, images_downloaded_for_this_page,
                    dirs, files, dirs0, files0, fsops, requests >>

\* Exists that sees directories only: files are never found
ExistsDirsOnly(path) == path \in dirs

\* os.path.exists(path)
Exists(path) == path \in dirs \/ path \in DOMAIN files

\* lines 46, 54-55: the output root is already there
RootExists ==
    /\ pc = "mkroot"
    /\ Exists(output_directory)
    /\ fsops' = Append(fsops, FsOp("exists", output_directory, 0, 0))
    /\ out' = Append(out, Line("starting", 0, 0, cfg.num_parent_pages.val))
    /\ pc' = "page_loop"
    /\ UNCHANGED << run, first, cfg, page_num, image_idx, images_downloaded_for_this_page,
                    dirs, files, dirs0, files0, requests >>

\* lines 46-49, 54-55: os.makedirs(output_directory) succeeds
CreateRoot ==
    /\ pc = "mkroot"
    /\ ~Exists(output_directory)
    /\ fsops' = fsops \o << FsOp("exists", output_directory, 0, 0),
                            FsOp("makedirs", output_directory, 0, 0) >>
    /\ dirs' = dirs \cup {output_directory}
    /\ out' = out \o << Line("created_main_directory", 0, 0, 0),
                        Line("starting", 0, 0, cfg.num_parent_pages.val) >>
    /\ pc' = "page_loop"
    /\ UNCHANGED << run, first, cfg, page_num, image_idx, images_downloaded_for_this_page,
                    files, dirs0, files0, requests >>

\* CreateRootFails without the return of line 52
CreateRootFailsContinue ==
    /\ pc = "mkroot"
    /\ ~Exists(output_directory)
    /\ fsops' = fsops \o << FsOp("exists", output_directory, 0, 0),
                            FsOp("makedirs_failed", output_directory, 0, 0) >>
    /\ out' = out \o << Line("error_creating_main_directory", 0, 0, 0),
                        Line("starting", 0, 0, cfg.num_parent_pages.val) >>
    /\ pc' = "page_loop"
    /\ UNCHANGED << run, first, cfg, page_num, image_idx, images_downloaded_for_this_page,
                    dirs, files, dirs0, files0, requests >>

\* lines 46-52: os.makedirs(output_directory) raises OSError
CreateRootFails ==
    /\ pc = "mkroot"
    /\ ~Exists(output_directory)
    /\ fsops' = fsops \o << FsOp("exists", output_directory, 0, 0),
                            FsOp("makedirs_failed", output_directory, 0, 0) >>
    /\ out' = Append(out, Line("error_creating_main_directory", 0, 0, 0))
    /\ pc' = "aborted"
    /\ UNCHANGED << run, first, cfg, page_num, image_idx, images_downloaded_for_this_page,
                    dirs, files, dirs0, files0, requests >>

\* HasNextPage with range(1, num_parent_pages + 2)
HasNextPagePastEnd == pc = "page_loop" /\ page_num <= cfg.num_parent_pages.val

\* os.makedirs can work for d: it has not failed for d before
MakedirsWorks(d) ==
    \A o \in Range(fsops) : ~(o.op = "makedirs_failed" /\ o.path = d)

\* the page loop has another page: page_num < num_parent_pages (line 57)
HasNextPage == pc = "page_loop" /\ page_num < cfg.num_parent_pages.val

\* the value the page loop binds next (line 57)
NextPageNum == IF page_num = 0 THEN FirstPage ELSE page_num + 1

\* lines 57-68, 76: next page, its directory is already there
PageDirExists ==
    /\ HasNextPage
    /\ LET p == NextPageNum
           d == PageSpecificOutputDir(p)
       IN  /\ Exists(d)
           /\ page_num' = p
           /\ fsops' = Append(fsops, FsOp("exists", d, p, 0))
           /\ out' = Append(out, Line("processing", p, 0, 0))
    /\ images_downloaded_for_this_page' = 0
    /\ image_idx' = 0
    /\ pc' = "image_loop"
    /\ UNCHANGED << run, first, cfg, dirs, files, dirs0, files0, requests >>

\* lines 57-71, 76: next page, os.makedirs(page_specific_output_dir) succeeds
CreatePageDir ==
    /\ HasNextPage
    /\ LET p == NextPageNum
           d == PageSpecificOutputDir(p)
       IN  /\ ~Exists(d)
           /\ MakedirsWorks(d)
           /\ page_num' = p
           /\ fsops' = fsops \o << FsOp("exists", d, p, 0), FsOp("makedirs", d, p, 0) >>
           /\ dirs' = dirs \cup {d}
           /\ out' = out \o << Line("processing", p, 0, 0),
                               Line("created_subdirectory", p, 0, 0) >>
    /\ images_downloaded_for_this_page' = 0
    /\ image_idx' = 0
    /\ pc' = "image_loop"
    /\ UNCHANGED << run, first, cfg, files, dirs0, files0, requests >>

\* CreatePageDirFails with return in the place of continue
CreatePageDirFailsReturn ==
    /\ HasNextPage
    /\ LET p == NextPageNum
           d == PageSpecificOutputDir(p)
       IN  /\ ~Exists(d)
           /\ page_num' = p
           /\ fsops' = fsops \o << FsOp("exists", d, p, 0),
                                   FsOp("makedirs_failed", d, p, 0) >>
           /\ out' = out \o << Line("processing", p, 0, 0),
                               Line("error_creating_subdirectory", p, 0, 0) >>
    /\ pc' = "aborted"
    /\ UNCHANGED << run, first, cfg, image_idx, images_downloaded_for_this_page,
                    dirs, files, dirs0, files0, requests >>

\* lines 57-74: next page, os.makedirs raises OSError, continue
CreatePageDirFails ==
    /\ HasNextPage
    /\ LET p == NextPageNum
           d == PageSpecificOutputDir(p)
       IN  /\ ~Exists(d)
           /\ page_num' = p
           /\ fsops' = fsops \o << FsOp("exists", d, p, 0),
                                   FsOp("makedirs_failed", d, p, 0) >>
           /\ out' = out \o << Line("processing", p, 0, 0),
                               Line("error_creating_subdirectory", p, 0, 0) >>
    /\ pc' = "page_loop"
    /\ UNCHANGED << run, first, cfg, image_idx, images_downloaded_for_this_page,
                    dirs, files, dirs0, files0, requests >>

\* ---------------------------------------------------------------- responses
\* status codes other than 200 and 404 that the server answers with
OtherStatuses == {403, 500}

\* exceptions requests.get raises before a response is there
GetExceptions == {"ConnectionError", "ConnectTimeout", "ReadTimeout", "TooManyRedirects"}

\* exceptions response.iter_content raises while the body is read
StreamExceptions == {"ChunkedEncodingError", "ConnectionError"}

\* the classes of requests.exceptions an exception is an instance of
Bases(exc) ==
    CASE exc = "ConnectionError" -> {"ConnectionError", "RequestException"}
      [] exc = "ConnectTimeout" ->
            {"ConnectTimeout", "ConnectionError", "Timeout", "RequestException"}
      [] exc = "ReadTimeout" -> {"ReadTimeout", "Timeout", "RequestException"}
      [] exc = "TooManyRedirects" -> {"TooManyRedirects", "RequestException"}
      [] exc = "ChunkedEncodingError" -> {"ChunkedEncodingError", "RequestException"}

\* lines 111-123: the except clauses in order, with the line each prints
ExceptClauses ==
    << [class |-> "HTTPError", msg |-> "http_error_occurred"],
       [class |-> "ConnectionError", msg |-> "connection_error"],
       [class |-> "Timeout", msg |-> "timeout_occurred"],
       [class |-> "RequestException", msg |-> "request_error"] >>

\* the line printed by the first except clause that matches exc
Handler(exc) ==
    LET k == CHOOSE j \in 1..Len(ExceptClauses) :
                 /\ ExceptClauses[j].class \in Bases(exc)
                 /\ \A h \in 1..(j - 1) : ExceptClauses[h].class \notin Bases(exc)
    IN  ExceptClauses[k].msg

\* the server answers a URL as it answered it before, if it was asked before
ServerAnswers(url, outcome) ==
    \A r \in Range(requests) : r.url = url => r.outcome = outcome

\* --------------------------------------------------------------- image loop
\* the image loop has another index: image_idx < max_images_per_page (line 77)
HasNextImage == pc = "image_loop" /\ image_idx < cfg.max_images_per_page.val

\* the value the image loop binds next (line 77)
NextImageIdx == IF image_idx = 0 THEN FirstImage ELSE image_idx + 1

CurrentUrl(i) ==
    FullImageUrl(cfg.base_url_for_pages, page_num, i, cfg.image_extension)

CurrentPath(i) == OutputImagePath(page_num, i, cfg.image_extension)

\* open(path, 'wb') followed by the writes that happened: the file holds content
WriteFile(fs, path, content) ==
    [ q \in (DOMAIN fs) \cup {path} |-> IF q = path THEN content ELSE fs[q] ]

\* SkipExisting that fetches the image again before counting it
SkipExistingRefetch ==
    /\ HasNextImage
    /\ LET i == NextImageIdx
           path == CurrentPath(i)
       IN  /\ Exists(path)
           /\ image_idx' = i
           /\ requests' = Append(requests, Request(CurrentUrl(i), page_num, i, "200"))
           /\ fsops' = Append(fsops, FsOp("exists", path, page_num, i))
           /\ out' = Append(out, Line("skipping", page_num, i, 0))
    /\ images_downloaded_for_this_page' = images_downloaded_for_this_page + 1
    /\ UNCHANGED << run, first, cfg, pc, page_num, dirs, files, dirs0, files0 >>

\* SkipExisting without the increment of line 85
SkipExistingUncounted ==
    /\ HasNextImage
    /\ LET i == NextImageIdx
           path == CurrentPath(i)
       IN  /\ Exists(path)
           /\ image_idx' = i
           /\ fsops' = Append(fsops, FsOp("exists", path, page_num, i))
           /\ out' = Append(out, Line("skipping", page_num, i, 0))
    /\ UNCHANGED << run, first, cfg, pc, page_num, images_downloaded_for_this_page,
                    dirs, files, dirs0, files0, requests >>

\* lines 77-86: the file is already there
SkipExisting ==
    /\ HasNextImage
    /\ LET i == NextImageIdx
           path == CurrentPath(i)
       IN  /\ Exists(path)
           /\ image_idx' = i
           /\ fsops' = Append(fsops, FsOp("exists", path, page_num, i))
           /\ out' = Append(out, Line("skipping", page_num, i, 0))
    /\ images_downloaded_for_this_page' = images_downloaded_for_this_page + 1
    /\ UNCHANGED << run, first, cfg, pc, page_num, dirs, files, dirs0, files0, requests >>

\* lines 77-97: status 200 and the whole body is written
Download ==
    /\ HasNextImage
    /\ LET i == NextImageIdx
           path == CurrentPath(i)
       IN  /\ ~Exists(path)
           /\ ServerAnswers(CurrentUrl(i), "200")
           /\ image_idx' = i
           /\ requests' = Append(requests, Request(CurrentUrl(i), page_num, i, "200"))
           /\ fsops' = fsops \o << FsOp("exists", path, page_num, i),
                                   FsOp("open_wb", path, page_num, i) >>
           /\ files' = WriteFile(files, path, "full")
           /\ out' = Append(out, Line("downloaded", page_num, i, 0))
    /\ images_downloaded_for_this_page' = images_downloaded_for_this_page + 1
    /\ UNCHANGED << run, first, cfg, pc, page_num, dirs, dirs0, files0 >>

\* NotFound without the break of line 104
NotFoundNoBreak ==
    /\ HasNextImage
    /\ LET i == NextImageIdx
           path == CurrentPath(i)
       IN  /\ ~Exists(path)
           /\ image_idx' = i
           /\ requests' = Append(requests, Request(CurrentUrl(i), page_num, i, "404"))
           /\ fsops' = Append(fsops, FsOp("exists", path, page_num, i))
           /\ out' = Append(out,
                        IF i = 1
                        THEN Line("no_images_found", page_num, i, 0)
                        ELSE Line("end_of_images", page_num, i,
                                  images_downloaded_for_this_page))
    /\ UNCHANGED << run, first, cfg, pc, page_num, images_downloaded_for_this_page,
                    dirs, files, dirs0, files0 >>

\* lines 77-92, 98-104: status 404, break
NotFound ==
    /\ HasNextImage
    /\ LET i == NextImageIdx
           path == CurrentPath(i)
       IN  /\ ~Exists(path)
           /\ ServerAnswers(CurrentUrl(i), "404")
           /\ image_idx' = i
           /\ requests' = Append(requests, Request(CurrentUrl(i), page_num, i, "404"))
           /\ fsops' = Append(fsops, FsOp("exists", path, page_num, i))
           /\ out' = Append(out,
                        IF i = 1
                        THEN Line("no_images_found", page_num, i, 0)
                        ELSE Line("end_of_images", page_num, i,
                                  images_downloaded_for_this_page))
    /\ pc' = "post_loop"
    /\ UNCHANGED << run, first, cfg, page_num, images_downloaded_for_this_page,
                    dirs, files, dirs0, files0 >>

\* HttpError without the break of line 109
HttpErrorNoBreak ==
    /\ HasNextImage
    /\ \E status \in OtherStatuses :
         LET i == NextImageIdx
             path == CurrentPath(i)
         IN  /\ ~Exists(path)
             /\ image_idx' = i
             /\ requests' = Append(requests,
                                   Request(CurrentUrl(i), page_num, i, "other_status"))
             /\ fsops' = Append(fsops, FsOp("exists", path, page_num, i))
             /\ out' = Append(out, Line("http_error", page_num, i, status))
    /\ UNCHANGED << run, first, cfg, pc, page_num, images_downloaded_for_this_page,
                    dirs, files, dirs0, files0 >>

\* lines 77-92, 105-109: another status, break
HttpError ==
    /\ HasNextImage
    /\ \E status \in OtherStatuses :
         LET i == NextImageIdx
             path == CurrentPath(i)
         IN  /\ ~Exists(path)
             /\ ServerAnswers(CurrentUrl(i), "other_status")
             /\ image_idx' = i
             /\ requests' = Append(requests,
                                   Request(CurrentUrl(i), page_num, i, "other_status"))
             /\ fsops' = Append(fsops, FsOp("exists", path, page_num, i))
             /\ out' = Append(out, Line("http_error", page_num, i, status))
    /\ pc' = "post_loop"
    /\ UNCHANGED << run, first, cfg, page_num, images_downloaded_for_this_page,
                    dirs, files, dirs0, files0 >>

\* RequestFails with no except clause: the exception leaves the function
RequestFailsUncaught ==
    /\ HasNextImage
    /\ \E exc \in GetExceptions :
         LET i == NextImageIdx
             path == CurrentPath(i)
         IN  /\ ~Exists(path)
             /\ image_idx' = i
             /\ requests' = Append(requests, Request(CurrentUrl(i), page_num, i, exc))
             /\ fsops' = Append(fsops, FsOp("exists", path, page_num, i))
    /\ pc' = "raised"
    /\ UNCHANGED << run, first, cfg, page_num, images_downloaded_for_this_page,
                    dirs, files, dirs0, files0, out >>

\* lines 77-90, 111-123: requests.get raises, break
RequestFails ==
    /\ HasNextImage
    /\ \E exc \in GetExceptions :
         LET i == NextImageIdx
             path == CurrentPath(i)
         IN  /\ ~Exists(path)
             /\ ServerAnswers(CurrentUrl(i), exc)
             /\ image_idx' = i
             /\ requests' = Append(requests, Request(CurrentUrl(i), page_num, i, exc))
             /\ fsops' = Append(fsops, FsOp("exists", path, page_num, i))
             /\ out' = Append(out, Line(Handler(exc), page_num, i, 0))
    /\ pc' = "post_loop"
    /\ UNCHANGED << run, first, cfg, page_num, images_downloaded_for_this_page,
                    dirs, files, dirs0, files0 >>

\* lines 77-95, 111-123: status 200, the file is opened for writing, then
\* iter_content raises before the body is complete, break
StreamFails ==
    /\ HasNextImage
    /\ \E exc \in StreamExceptions :
         LET i == NextImageIdx
             path == CurrentPath(i)
         IN  /\ ~Exists(path)
             /\ ServerAnswers(CurrentUrl(i), "200_broken")
             /\ image_idx' = i
             /\ requests' = Append(requests,
                                   Request(CurrentUrl(i), page_num, i, "200_broken"))
             /\ fsops' = fsops \o << FsOp("exists", path, page_num, i),
                                     FsOp("open_wb", path, page_num, i) >>
             /\ files' = WriteFile(files, path, "partial")
             /\ out' = Append(out, Line(Handler(exc), page_num, i, 0))
    /\ pc' = "post_loop"
    /\ UNCHANGED << run, first, cfg, page_num, images_downloaded_for_this_page,
                    dirs, dirs0, files0 >>

\* line 77: range(1, max_images_per_page + 1) is exhausted
LoopExhausted ==
    /\ pc = "image_loop"
    /\ ~HasNextImage
    /\ pc' = "post_loop"
    /\ UNCHANGED << run, first, cfg, page_num, image_idx, images_downloaded_for_this_page,
                    dirs, files, dirs0, files0, fsops, requests, out >>

\* CapReached that expects the loop variable to run past the cap
CapReachedPastCap(count, idx, max) ==
    /\ ~(count = 0 /\ idx > 1 /\ idx < max)
    /\ count > 0 /\ idx > max

\* lines 128-132: the elif branch is taken
CapReached(count, idx, max) ==
    /\ ~(count = 0 /\ idx > 1 /\ idx < max)
    /\ count > 0 /\ idx = max

\* lines 128-134, then back to line 57
PostLoop ==
    /\ pc = "post_loop"
    /\ out' = IF CapReached(images_downloaded_for_this_page, image_idx,
                            cfg.max_images_per_page.val)
              THEN Append(out, Line("reached_max_images_per_page", page_num, 0,
                                    images_downloaded_for_this_page))
              ELSE out
    /\ pc' = "page_loop"
    /\ UNCHANGED << run, first, cfg, page_num, image_idx, images_downloaded_for_this_page,
                    dirs, files, dirs0, files0, fsops, requests >>

\* lines 57, 136: the page loop is exhausted
Completed ==
    /\ pc = "page_loop"
    /\ ~HasNextPage
    /\ out' = Append(out, Line("completed", 0, 0, 0))
    /\ pc' = "done"
    /\ UNCHANGED << run, first, cfg, page_num, image_idx, images_downloaded_for_this_page,
                    dirs, files, dirs0, files0, fsops, requests >>

Next ==
    \/ Validate
    \/ RootExists
    \/ CreateRoot
    \/ CreateRootFails
    \/ PageDirExists
    \/ CreatePageDir
    \/ CreatePageDirFails
    \/ SkipExisting
    \/ Download
    \/ NotFound
    \/ HttpError
    \/ RequestFails
    \/ StreamFails
    \/ LoopExhausted
    \/ PostLoop
    \/ Completed

Spec == Init /\ [][Next]_vars

\* the interpreter runs the function to its end: no step is postponed forever
FairSpec == Spec /\ WF_vars(Next)

\* lines 168-175, a second time: the script is run again with the same
\* configuration on the output tree the first run left
Restart ==
    /\ pc = "done"
    /\ run = 1
    /\ run' = 2
    /\ first' = FirstCall(files, Len(requests), Len(out))
    /\ pc' = "validate"
    /\ page_num' = 0
    /\ image_idx' = 0
    /\ images_downloaded_for_this_page' = 0
    /\ UNCHANGED << cfg, dirs, files, dirs0, files0, fsops, requests, out >>

NextRerun ==
    \/ Next
    \/ Restart

\* a call that runs to completion has a configuration that passes validation
InitRerun == Init /\ ValidationError(cfg) = "none"

\* two calls of the function in a row
RerunSpec == InitRerun /\ [][NextRerun]_vars

\* ---------------------------------------------------- vocabulary of the claims
Pages == 1..MaxPages
Indices == 1..MaxImages

Valid == ValidationError(cfg) = "none"
NumPages == cfg.num_parent_pages.val
Cap == cfg.max_images_per_page.val

\* the requests issued for page p, in order
RequestsFor(p) == SelectSeq(requests, LAMBDA r : r.page = p)

\* a request for index i of page p was issued and ended with outcome o
Answered(p, i, o) ==
    \E r \in Range(requests) : r.page = p /\ r.idx = i /\ r.outcome = o

PathOf(p, i) == OutputImagePath(p, i, cfg.image_extension)

\* the indices of page p whose file came into being during the run
WrittenFor(p) ==
    { i \in Indices : PathOf(p, i) \in (DOMAIN files) \ (DOMAIN files0) }

\* the directory of page p held no image file when the run started
EmptyAtStart(p) == \A i \in Indices : PathOf(p, i) \notin DOMAIN files0

\* the image loop of page p and its post-loop report are over
PageFinished(p) ==
    \/ page_num > p
    \/ page_num = p /\ pc \in {"page_loop", "done"}

Printed(msg, p) == \E l \in Range(out) : l.msg = msg /\ l.page = p

PrintedFor(msg, p, i) ==
    \E l \in Range(out) : l.msg = msg /\ l.page = p /\ l.idx = i

\* os.makedirs failed for the directory of page p
PageDirFailed(p) ==
    \E o \in Range(fsops) : o.op = "makedirs_failed" /\ o.page = p

\* the existence checks of image paths, as (page, index) pairs, in order
Probes ==
    LET checks == SelectSeq(fsops, LAMBDA o : o.op = "exists" /\ o.idx > 0)
    IN  [ j \in 1..Len(checks) |-> << checks[j].page, checks[j].idx >> ]

\* no filesystem call, no request, and the output tree as it was
NoSideEffects ==
    /\ fsops = << >>
    /\ requests = << >>
    /\ dirs = dirs0
    /\ files = files0

\* ------------------------------------------------------------------------ C1
\* C1: when the image loop reaches an index whose destination path already
\* exists, that step issues no request and adds one to the page's counter;
\* and no request of the run is for an image whose file was there already.
C1_ExistingNotRefetched ==
    /\ [][ (HasNextImage /\ Exists(CurrentPath(NextImageIdx)))
             => /\ requests' = requests
                /\ files' = files
                /\ image_idx' = NextImageIdx
                /\ images_downloaded_for_this_page'
                     = images_downloaded_for_this_page + 1 ]_vars
    /\ [](\A r \in Range(requests) : PathOf(r.page, r.idx) \notin DOMAIN files0)

\* a pre-existing file of index 2 was skipped after index 1 was downloaded
C1_Witness ==
    /\ PrintedFor("downloaded", 1, 1)
    /\ PrintedFor("skipping", 1, 2)
    /\ images_downloaded_for_this_page = 2

\* ------------------------------------------------------------------------ C2
\* C2: on a page whose directory held no image file, if the requests for
\* indices 1..k were answered 200 and the request for k+1 was answered 404
\* (0 <= k < max_images_per_page), then exactly the files 1..k were written
\* for the page and exactly k+1 requests were issued for it.
C2_StopAtFirstNotFound ==
    \A p \in Pages : \A k \in 0..(MaxImages - 1) :
        ( /\ Valid
          /\ k < Cap
          /\ EmptyAtStart(p)
          /\ \A i \in 1..k : Answered(p, i, "200")
          /\ Answered(p, k + 1, "404") )
        => /\ WrittenFor(p) = 1..k
           /\ \A i \in 1..k : files[PathOf(p, i)] = "full"
           /\ Len(RequestsFor(p)) = k + 1

\* images 1 and 2 of page 1 were downloaded, image 3 was not found, and the
\* run went on
C2_Witness ==
    /\ EmptyAtStart(1)
    /\ Answered(1, 1, "200") /\ Answered(1, 2, "200") /\ Answered(1, 3, "404")
    /\ PageFinished(1)

\* ------------------------------------------------------------------------ C3
\* C3: on a page whose directory held no image file, if every request for
\* indices 1..max_images_per_page was answered 200, then exactly
\* max_images_per_page files were written and as many requests issued for the
\* page, and once the page is finished the cap-reached line was printed for it.
C3_CapReached ==
    \A p \in Pages :
        ( /\ Valid
          /\ EmptyAtStart(p)
          /\ \A i \in 1..Cap : Answered(p, i, "200") )
        => /\ WrittenFor(p) = 1..Cap
           /\ \A i \in 1..Cap : files[PathOf(p, i)] = "full"
           /\ Len(RequestsFor(p)) = Cap
           /\ PageFinished(p) => Printed("reached_max_images_per_page", p)

\* page 1 was downloaded up to a cap of MaxImages and is finished
C3_Witness ==
    /\ Cap = MaxImages
    /\ EmptyAtStart(1)
    /\ \A i \in 1..Cap : Answered(1, i, "200")
    /\ PageFinished(1)

\* ------------------------------------------------------------------------ C4
\* C4: if os.makedirs failed for the directory of page p, then no image path
\* of page p is checked, no request is issued and no file is written for it,
\* the run is not aborted but back at the head of the page loop, and when the
\* run is done every later page was processed: its directory was set up (or
\* its own creation failed) and, when it was set up, its index 1 was probed.
C4_PageDirFailureIsLocal ==
    \A p \in Pages :
        PageDirFailed(p)
        => /\ RequestsFor(p) = << >>
           /\ WrittenFor(p) = {}
           /\ \A pr \in Range(Probes) : pr[1] # p
           /\ PageSpecificOutputDir(p) \notin dirs
           /\ pc # "aborted"
           /\ page_num = p => pc \in {"page_loop", "done"}
           /\ pc = "done" =>
                \A q \in (p + 1)..NumPages :
                    /\ Printed("processing", q)
                    /\ ~PageDirFailed(q) =>
                         /\ PageSpecificOutputDir(q) \in dirs
                         /\ << q, 1 >> \in Range(Probes)

\* the directory of page 1 could not be created, page 2 was set up and its
\* first two images were downloaded
C4_Witness ==
    /\ pc = "done"
    /\ PageDirFailed(1)
    /\ Answered(2, 1, "200") /\ Answered(2, 2, "200")

\* ------------------------------------------------------------------------ C5
BadBaseUrl ==
    /\ ~StartsWith(cfg.base_url_for_pages, HTTP)
    /\ ~StartsWith(cfg.base_url_for_pages, HTTPS)
BadExtension ==
    cfg.image_extension = << >> \/ cfg.image_extension[1] # DOT
BadNumPages == ~(cfg.num_parent_pages.int /\ cfg.num_parent_pages.val >= 1)
BadCap == ~(cfg.max_images_per_page.int /\ cfg.max_images_per_page.val >= 1)

\* the lines that report a constraint the configuration violates
ViolatedConstraints ==
    (IF BadBaseUrl THEN {"bad_base_url"} ELSE {}) \cup
    (IF BadExtension THEN {"bad_image_extension"} ELSE {}) \cup
    (IF BadNumPages THEN {"bad_num_parent_pages"} ELSE {}) \cup
    (IF BadCap THEN {"bad_max_images_per_page"} ELSE {})

\* C5: a configuration that violates a validation constraint makes the call
\* return with no filesystem call, no request and the output tree untouched,
\* and the one line it prints reports a constraint that is violated.
C5_InvalidConfigAborts ==
    ViolatedConstraints # {}
    => /\ NoSideEffects
       /\ pc \in {"validate", "aborted"}
       /\ pc = "aborted" =>
            /\ Len(out) = 1
            /\ out[1].msg \in ViolatedConstraints

\* a call with a good URL and an extension without the dot has returned
C5_Witness ==
    /\ pc = "aborted"
    /\ ~BadBaseUrl
    /\ BadExtension
    /\ out = << Line("bad_image_extension", 0, 0, 0) >>

\* ------------------------------------------------------------------------ C6
\* the pages whose processing started, in order
ProcessedPages ==
    LET ls == SelectSeq(out, LAMBDA l : l.msg = "processing")
    IN  [ j \in 1..Len(ls) |-> ls[j].page ]

\* the start pages a caller may have in mind; the call has no such argument
StartPages == 1..MaxPages

LexLess(a, b) == a[1] < b[1] \/ (a[1] = b[1] /\ a[2] < b[2])

\* C7: the probed (page, index) pairs are strictly increasing: each probe is
\* the next index of the same page or index 1 of a later page; every request
\* is for the pair probed last at the time; no URL is requested twice.
C7_ProbesInOrder ==
    /\ \A j \in 1..Len(Probes) :
         /\ j = 1 => Probes[j][2] = 1
         /\ j > 1 =>
              \/ Probes[j][1] = Probes[j - 1][1] /\ Probes[j][2] = Probes[j - 1][2] + 1
              \/ Probes[j][1] > Probes[j - 1][1] /\ Probes[j][2] = 1
    /\ \A j \in 1..Len(requests) :
         /\ << requests[j].page, requests[j].idx >> \in Range(Probes)
         /\ j > 1 => LexLess(<< requests[j - 1].page, requests[j - 1].idx >>,
                             << requests[j].page, requests[j].idx >>)
    /\ \A j, k \in 1..Len(requests) : j # k => requests[j].url # requests[k].url

\* both pages were probed, with a skip and requests on each
C7_Witness ==
    /\ Len(Probes) >= 4
    /\ Len(requests) >= 3
    /\ \E r \in Range(requests) : r.page = 1
    /\ \E r \in Range(requests) : r.page = 2
    /\ Printed("skipping", 1)

FailureOutcomes == {"other_status", "200_broken"} \cup GetExceptions

\* the indices of page p that were counted as successes
CountedFor(p) ==
    { i \in Indices : PrintedFor("downloaded", p, i) \/ PrintedFor("skipping", p, i) }

\* C9: after a request for index i of page p ended with an error status or a
\* transport failure, no further request is issued for page p, the image loop
\* of page p is over, index i is not counted, and the page's counter is the
\* number of indices counted before.
C9_FailureStopsPage ==
    \A j \in 1..Len(requests) :
        requests[j].outcome \in FailureOutcomes
        => /\ \A k \in 1..Len(requests) :
                k # j => requests[k].page # requests[j].page \/ k < j
           /\ \A k \in 1..Len(requests) :
                k # j => ~(requests[k].page = requests[j].page
                           /\ requests[k].idx >= requests[j].idx)
           /\ requests[j].idx \notin CountedFor(requests[j].page)
           /\ page_num = requests[j].page =>
                /\ pc # "image_loop"
                /\ pc = "post_loop" =>
                     images_downloaded_for_this_page
                       = Cardinality(CountedFor(page_num))

\* image 1 of page 1 was downloaded, image 2 was answered with an error
\* status, and page 2 was fetched afterwards
C9_Witness ==
    /\ Answered(1, 1, "200")
    /\ Answered(1, 2, "other_status")
    /\ Answered(2, 1, "200")

\* ----------------------------------------------------------------------- C10
RootCreationFailed ==
    \E o \in Range(fsops) : o.op = "makedirs_failed" /\ o.path = output_directory

\* C10: if the output root was absent and os.makedirs failed for it, the call
\* has returned with no page directory created, no request and no file
\* written; if the root was there already, the call does not return early or
\* print an error for it, never calls os.makedirs for it, and the first page
\* it processes is page 1.
C10_RootDirectory ==
    /\ RootCreationFailed =>
         /\ output_directory \notin dirs0
         /\ pc = "aborted"
         /\ dirs = dirs0
         /\ files = files0
         /\ requests = << >>
         /\ Len(fsops) = 2
         /\ out[Len(out)].msg = "error_creating_main_directory"
    /\ (Valid /\ output_directory \in dirs0) =>
         /\ pc # "aborted"
         /\ ~Printed("error_creating_main_directory", 0)
         /\ \A o \in Range(fsops) :
              o.path = output_directory => o.op = "exists"
         /\ pc \in {"image_loop", "post_loop", "done"} => ProcessedPages[1] = 1
         /\ (pc = "page_loop" /\ page_num = 0) => ENABLED (PageDirExists \/ CreatePageDir
                                                           \/ CreatePageDirFails)

\* the root was absent, could not be created, and the call has returned
C10_Witness ==
    /\ RootCreationFailed
    /\ pc = "aborted"
    /\ out = << Line("error_creating_main_directory", 0, 0, 0) >>

\* ----------------------------------------------------------------------- C11
\* outcomes that stop the image loop
StopOutcomes == {"404"} \cup FailureOutcomes

\* C11: the cap-reached line is printed for a page only if no request of the
\* page ended with a stop signal (not-found, another error status, a transport
\* failure), also not the request for index max_images_per_page.
C11_CapOnlyWithoutStop ==
    \A p \in Pages :
        Printed("reached_max_images_per_page", p)
        => \A r \in Range(RequestsFor(p)) : r.outcome \notin StopOutcomes

\* ----------------------------------------------------------------------- C12
\* C12: every image file that was there when the run started is there in
\* every state of the run, with the content it had, and is never opened for
\* writing.
C12_OldFilesUntouched ==
    /\ \A path \in DOMAIN files0 :
         /\ path \in DOMAIN files
         /\ files[path] = files0[path]
    /\ \A o \in Range(fsops) : o.op = "open_wb" => o.path \notin DOMAIN files0

\* image 2 of page 1 was there before the run; images 1 and 3 were downloaded
\* around it
C12_Witness ==
    /\ PathOf(1, 2) \in DOMAIN files0
    /\ PrintedFor("downloaded", 1, 1)
    /\ PrintedFor("downloaded", 1, 3)
    /\ pc = "done"

\* ----------------------------------------------------------------------- C13
\* the image paths that came into being during the run
NewFiles == (DOMAIN files) \ (DOMAIN files0)

\* C13: when the run is done, every image file that was not there before was
\* written completely from a 200 response and counted for its page; and no
\* request that ended in a stop condition (404, another status, an exception
\* of requests.get or of iter_content) has left a file at its path.
C13_NewFilesCompleteAndCounted ==
    pc = "done"
    => /\ \A p \in Pages : \A i \in Indices :
            PathOf(p, i) \in NewFiles
            => /\ files[PathOf(p, i)] = "full"
               /\ Answered(p, i, "200")
               /\ PrintedFor("downloaded", p, i)
       /\ \A r \in Range(requests) :
            r.outcome \in StopOutcomes => PathOf(r.page, r.idx) \notin DOMAIN files

\* ----------------------------------------------------------------------- C14
\* C14: when the image loop is about to probe index i (image_idx = i - 1), the
\* page's counter is i - 1 and every path of indices 1..i-1 of the page
\* exists; the count printed with not-found at an index i > 1 is i - 1; and
\* after the loop a counter of 0 never comes with image_idx > 1.
C14_CounterIsIndexMinusOne ==
    /\ pc = "image_loop" =>
         /\ images_downloaded_for_this_page = image_idx
         /\ \A j \in 1..image_idx : Exists(PathOf(page_num, j))
    /\ \A l \in Range(out) : l.msg = "end_of_images" => l.idx > 1 /\ l.n = l.idx - 1
    /\ pc = "post_loop" =>
         ~(images_downloaded_for_this_page = 0 /\ image_idx > 1)

\* on page 1 a pre-existing image 1 was skipped, image 2 was downloaded and
\* image 3 was not found, with 2 as the count printed
C14_Witness ==
    /\ PrintedFor("skipping", 1, 1)
    /\ PrintedFor("downloaded", 1, 2)
    /\ \E l \in Range(out) :
         l.msg = "end_of_images" /\ l.page = 1 /\ l.idx = 3 /\ l.n = 2
    /\ pc = "post_loop"

\* ----------------------------------------------------------------------- C15
\* the requests of the second call, in order
SecondRequests == SubSeq(requests, first.requests + 1, Len(requests))

SecondRequestsFor(p) == SelectSeq(SecondRequests, LAMBDA r : r.page = p)

\* the first call printed the cap-reached line for page p
CapReportedInFirst(p) ==
    \E j \in 1..first.out :
        out[j].msg = "reached_max_images_per_page" /\ out[j].page = p

\* C15: in a second call with the same configuration, against a server that
\* answers every URL as before, no file is created or changed, at most one
\* request is issued per page, and none for a page for which the first call
\* reported the cap.
C15_RerunIdempotent ==
    run = 2
    => /\ files = first.files
       /\ \A p \in Pages :
            /\ Len(SecondRequestsFor(p)) <= 1
            /\ CapReportedInFirst(p) => SecondRequestsFor(p) = << >>
====
